---- MODULE Spec2Model ----
(***************************************************************************)
(* Model of the VM control object of the hypervisor                        *)
(* (hypervisor/src/intel/vm.rs): Vm::new, Vm::activate_vmcs,               *)
(* Vm::setup_vmcs, Vm::run and Vm::vm_succeed, together with the VMX       *)
(* collaborators they call (vmclear, vmptrld, vmread, launch_vm and the    *)
(* three Vmcs::setup_* configurator steps), which are represented by the   *)
(* calls made to them and by the values they hand back.                    *)
(***************************************************************************)
EXTENDS Integers, Sequences, FiniteSets, TLC

VARIABLES
    has_launched,     \* Vm.has_launched
    guest_registers,  \* Vm.guest_registers: [gpr, rip, rsp, rflags]
    revision_bit31,   \* bit 31 of Vm.vmcs_region.revision_id
    hw,               \* the logical processor's view of vmcs_region:
                      \*   current      - the current-VMCS pointer is this region
                      \*   launch_state - "undefined", "clear" or "launched"
                      \*   configured   - setup_vmcs programmed it to the end
    vmcs,             \* the VMCS fields VMREAD returns, by field name
    op,               \* the operation of Vm that ran last
    result,           \* what that operation returned
    flags,            \* the flags launch_vm returned in the last run
    trace,            \* the collaborator calls of the last operation, in order
    log,              \* the log::error! line of the last operation, if any
    entries,          \* one record per launch_vm call made so far:
                      \*   arg       - the flag launch_vm was given
                      \*   verified  - vm_succeed returned Ok
                      \*   ok        - run returned Ok
                      \*   activated - this entry and all before it were made
                      \*               on a region loaded and configured
    failure,          \* the collaborator call that failed in the last
                      \* operation of activation or setup, or "none"
    vz                \* the processor running virtualize_system
                      \* (uefi/src/virtualize.rs): where it is (pc), its
                      \* argument, its local host_stack, the registers
                      \* rcx, rdx, r8, rsp and rip, and the stack allocated

vmvars == <<has_launched, guest_registers, revision_bit31, hw, vmcs, op,
            result, flags, trace, log, entries, failure>>

vars == <<has_launched, guest_registers, revision_bit31, hw, vmcs, op, result,
          flags, trace, log, entries, failure, vz>>

(***************************************************************************)
(* Bounds of the model.                                                    *)
(***************************************************************************)
\* Number of run invocations a behaviour records in entries.
MaxRuns == 2

(***************************************************************************)
(* Program constants.                                                      *)
(***************************************************************************)
\* RFlags::FLAGS_ZF (bit 6) and RFlags::FLAGS_CF (bit 0).
FLAGS_ZF == 64
FLAGS_CF == 1
\* VMREAD returns a u64. A u64 is kept as three limbs, value
\* hi * 2^32 + mid * 2^16 + lo, with mid and lo below 2^16; a u32 is the two
\* limbs mid and lo.
Limb == 2^16
U64(hi, mid, lo) == [hi |-> hi, mid |-> mid, lo |-> lo]
U32(mid, lo) == [mid |-> mid, lo |-> lo]

(***************************************************************************)
(* Input domains: what the collaborators may hand back.                    *)
(***************************************************************************)
\* Flags values launch_vm may return in a run: neither flag of the two (2),
\* CF (3) and ZF (0x42).
FlagVals == {2, 3, 66}

\* Flags values handed to vm_succeed on its own: the above and ZF|CF (0x43),
\* SF|PF|IF with neither ZF nor CF (0x286), OF|SF|ZF|PF (0x8C6), CF with
\* IF|SF (0x283), zero, and ZF alone (0x40).
VerifyFlagVals == FlagVals \cup {0, 64, 67, 643, 646, 2246, 2247}

\* The guest's registers at a VM exit: the general registers launch_vm
\* leaves in the snapshot and the guest RIP, RSP and RFLAGS fields.
GuestExits ==
    {[gpr |-> 1, RIP |-> 1, RSP |-> 2, RFLAGS |-> 3],
     [gpr |-> 2, RIP |-> 3, RSP |-> 1, RFLAGS |-> 2]}

\* 64-bit values VMREAD may return for the exit-reason field: two codes of
\* the enumeration (10, 48), a code that is in no enumeration (0xFFFFFFFF),
\* a known code with bit 31 set (0x8000000A), and a known code with bit 32
\* set (0x10000000A).
ExitReasonVals ==
    {U64(0, 0, 10), U64(0, 0, 48), U64(0, Limb - 1, Limb - 1),
     U64(0, Limb \div 2, 10), U64(1, 0, 10)}

\* 64-bit values VMREAD may return for the VM-instruction-error field in a
\* run: a code of the enumeration (4) and a code in no enumeration (99).
InstructionErrorVals == {U64(0, 0, 4), U64(0, 0, 99)}

\* The same for vm_succeed on its own: also 5, 7 and 8, zero, a known code
\* with bit 16 set and a known code with bit 32 set.
VerifyInstructionErrorVals ==
    InstructionErrorVals \cup
    {U64(0, 0, 0), U64(0, 0, 5), U64(0, 0, 7), U64(0, 0, 8), U64(0, 1, 4),
     U64(1, 0, 4)}

\* The collaborator call that fails in a setup_vmcs or an activate_vmcs: an
\* operation stops at its first failure, so at most one call fails in it.
SetupFailures ==
    {"none", "setup_host_registers_state", "setup_vmcs_control_fields"}
ActivateFailures == SetupFailures \cup {"vmclear", "vmptrld"}

\* The VMCS fields as VMREAD returns them.
Store(exit, reason, error) ==
    [RIP |-> exit.RIP, RSP |-> exit.RSP, RFLAGS |-> exit.RFLAGS,
     EXIT_REASON |-> reason, VM_INSTRUCTION_ERROR |-> error]

\* The snapshot the caller hands to Vm::new and the zeroed VMCS region.
InitialRegisters == [gpr |-> 1, rip |-> 4, rsp |-> 5, rflags |-> 6]
ZeroedStore ==
    [RIP |-> 0, RSP |-> 0, RFLAGS |-> 0, EXIT_REASON |-> U64(0, 0, 0),
     VM_INSTRUCTION_ERROR |-> U64(0, 0, 0)]

(***************************************************************************)
(* Results and options.                                                    *)
(***************************************************************************)
Ok(v) == [tag |-> "Ok", val |-> v]
Err(e) == [tag |-> "Err", val |-> e]
NoResult == [tag |-> "None", val |-> "None"]
\* The operation did not return: a collaborator panicked.
Panic(e) == [tag |-> "Panic", val |-> e]
Some(v) == [some |-> TRUE, val |-> v]
None == [some |-> FALSE, val |-> "None"]

(***************************************************************************)
(* The two enumerations (vmerror.rs): code -> name.                        *)
(***************************************************************************)
VmxBasicExitReasonNames ==
    (0 :> "ExceptionOrNmi") @@ (1 :> "ExternalInterrupt") @@ (10 :> "Cpuid")
    @@ (12 :> "Hlt") @@ (31 :> "Rdmsr") @@ (32 :> "Wrmsr")
    @@ (48 :> "EptViolation")

VmInstructionErrorNames ==
    (4 :> "VmlaunchNonClearVmcs") @@ (5 :> "VmresumeNonLaunchedVmcs")
    @@ (7 :> "VmEntryInvalidControlFields") @@ (8 :> "VmEntryInvalidHostState")

VmxBasicExitReason_from_u32(code) ==
    IF code.mid = 0 /\ code.lo \in DOMAIN VmxBasicExitReasonNames
    THEN Some(VmxBasicExitReasonNames[code.lo]) ELSE None

VmInstructionError_from_u32(code) ==
    IF code.mid = 0 /\ code.lo \in DOMAIN VmInstructionErrorNames
    THEN Some(VmInstructionErrorNames[code.lo]) ELSE None

(***************************************************************************)
(* Small conversions.                                                      *)
(***************************************************************************)
\* Contains with the mask taken one bit too high.
Contains_next_bit(f, mask) == (f \div (2 * mask)) % 2 = 1

\* RFlags::contains for a single-bit mask.
Contains(f, mask) == (f \div mask) % 2 = 1

\* A conversion that keeps only the 16-bit basic reason.
AsU32_masked16(x) == U32(0, x.lo)

\* `x as u32` of a u64: the bits above bit 31 are dropped.
AsU32(x) == U32(x.mid, x.lo)

\* vmread(field)
vmread(store, field) == store[field]

(***************************************************************************)
(* Collaborator calls and their effect on the processor's VMCS state.      *)
(***************************************************************************)
\* A recorded call: its name, and whether the region was the current VMCS
\* and what its launch state was when the call was made.
Call(name, h) ==
    [call |-> name, loaded |-> h.current, launch_state |-> h.launch_state]

\* VMCLEAR makes the region inactive and not current with launch state clear
\* (and activate_vmcs programs it anew); VMPTRLD makes it the current VMCS.
HwStep(h, name) ==
    CASE name = "vmclear" ->
             [current |-> FALSE, launch_state |-> "clear",
              configured |-> FALSE]
      [] name = "vmptrld" -> [h EXCEPT !.current = TRUE]
      [] OTHER -> h

RECURSIVE Exec(_, _)
Exec(h, names) ==
    IF names = <<>> THEN [hw |-> h, trace |-> <<>>]
    ELSE LET r == Exec(HwStep(h, Head(names)), Tail(names))
         IN  [hw |-> r.hw,
              trace |-> <<Call(Head(names), h)>> \o r.trace]

CallNames(t) == [i \in 1..Len(t) |-> t[i].call]

(***************************************************************************)
(* Vm::vm_succeed: the verdict on the flags launch_vm returned, the VMCS   *)
(* fields it read and the line it logged.                                  *)
(***************************************************************************)
\* vm_succeed reporting an unrecognized code as a recognized one.
vm_succeed_one_kind(f, store) ==
    IF Contains(f, FLAGS_ZF)
    THEN [res |-> Err("VmInstructionError"),
          reads |-> <<"vmread_VM_INSTRUCTION_ERROR">>,
          log |-> <<"VM instruction error",
                    ToString(AsU32(vmread(store, "VM_INSTRUCTION_ERROR")))>>]
    ELSE IF Contains(f, FLAGS_CF)
         THEN [res |-> Err("VMFailToLaunch"),
               reads |-> <<>>,
               log |-> <<"VM instruction failed due to carry flag being set">>]
         ELSE [res |-> Ok("unit"), reads |-> <<>>, log |-> <<>>]

\* vm_succeed without the carry-flag branch.
vm_succeed_no_carry_check(f, store) ==
    IF Contains(f, FLAGS_ZF)
    THEN LET instruction_error ==
                 AsU32(vmread(store, "VM_INSTRUCTION_ERROR"))
             error == VmInstructionError_from_u32(instruction_error)
         IN  IF error.some
             THEN [res |-> Err("VmInstructionError"),
                   reads |-> <<"vmread_VM_INSTRUCTION_ERROR">>,
                   log |-> <<"VM instruction error", error.val>>]
             ELSE [res |-> Err("UnknownVMInstructionError"),
                   reads |-> <<"vmread_VM_INSTRUCTION_ERROR">>,
                   log |-> <<"Unknown VM instruction error",
                             ToString(instruction_error)>>]
    ELSE [res |-> Ok("unit"), reads |-> <<>>, log |-> <<>>]

\* vm_succeed testing the carry flag before the zero flag.
vm_succeed_carry_first(f, store) ==
    IF Contains(f, FLAGS_CF)
    THEN [res |-> Err("VMFailToLaunch"),
          reads |-> <<>>,
          log |-> <<"VM instruction failed due to carry flag being set">>]
    ELSE IF Contains(f, FLAGS_ZF)
         THEN LET instruction_error ==
                      AsU32(vmread(store, "VM_INSTRUCTION_ERROR"))
                  error == VmInstructionError_from_u32(instruction_error)
              IN  IF error.some
                  THEN [res |-> Err("VmInstructionError"),
                        reads |-> <<"vmread_VM_INSTRUCTION_ERROR">>,
                        log |-> <<"VM instruction error", error.val>>]
                  ELSE [res |-> Err("UnknownVMInstructionError"),
                        reads |-> <<"vmread_VM_INSTRUCTION_ERROR">>,
                        log |-> <<"Unknown VM instruction error",
                                  ToString(instruction_error)>>]
         ELSE [res |-> Ok("unit"), reads |-> <<>>, log |-> <<>>]

vm_succeed(f, store) ==
    IF Contains(f, FLAGS_ZF)
    THEN LET instruction_error ==
                 AsU32(vmread(store, "VM_INSTRUCTION_ERROR"))
             error == VmInstructionError_from_u32(instruction_error)
         IN  IF error.some
             THEN [res |-> Err("VmInstructionError"),
                   reads |-> <<"vmread_VM_INSTRUCTION_ERROR">>,
                   log |-> <<"VM instruction error", error.val>>]
             ELSE [res |-> Err("UnknownVMInstructionError"),
                   reads |-> <<"vmread_VM_INSTRUCTION_ERROR">>,
                   log |-> <<"Unknown VM instruction error",
                             ToString(instruction_error)>>]
    ELSE IF Contains(f, FLAGS_CF)
         THEN [res |-> Err("VMFailToLaunch"),
               reads |-> <<>>,
               log |-> <<"VM instruction failed due to carry flag being set">>]
         ELSE [res |-> Ok("unit"), reads |-> <<>>, log |-> <<>>]

(***************************************************************************)
(* Vm::run, step by step.                                                  *)
(***************************************************************************)
\* launch_vm always asked for VMLAUNCH.
LaunchedArg_always_launch(launched) == 0

\* u64::from(self.has_launched), the second argument of launch_vm.
LaunchedArg(launched) == IF launched THEN 1 ELSE 0

\* has_launched never assigned by run.
LaunchedAfter_unchanged(launched, verdict) == launched

\* has_launched assigned the verdict of the last entry.
LaunchedAfter_reset(launched, verdict) == verdict.res.tag = "Ok"

\* `Self::vm_succeed(..)?; self.has_launched = true;`
LaunchedAfter(launched, verdict) ==
    IF verdict.res.tag = "Ok" THEN TRUE ELSE launched

\* rip and rsp read from each other's field.
ResyncRegisters_swapped(regs, store) ==
    [regs EXCEPT !.rip = vmread(store, "RSP"),
                 !.rsp = vmread(store, "RIP"),
                 !.rflags = vmread(store, "RFLAGS")]

\* The three assignments from vmread to the snapshot; the general registers
\* are the ones launch_vm left in the snapshot.
ResyncRegisters(regs, store) ==
    [regs EXCEPT !.rip = vmread(store, "RIP"),
                 !.rsp = vmread(store, "RSP"),
                 !.rflags = vmread(store, "RFLAGS")]

\* The resynchronisation done whatever the verdict.
RegistersAfter_unconditional(regs, verdict, store) ==
    [regs EXCEPT !.rip = vmread(store, "RIP"),
                 !.rsp = vmread(store, "RSP"),
                 !.rflags = vmread(store, "RFLAGS")]

\* `Self::vm_succeed(..)?` followed by the resynchronisation.
RegistersAfter(regs, verdict, store) ==
    IF verdict.res.tag = "Ok" THEN ResyncRegisters(regs, store) ELSE regs

\* An unmatched exit reason mapped to a default reason.
ClassifyExit_default(store) ==
    LET exit_reason == AsU32(vmread(store, "EXIT_REASON"))
        basic_exit_reason == VmxBasicExitReason_from_u32(exit_reason)
    IN  IF basic_exit_reason.some
        THEN [res |-> Ok(basic_exit_reason.val), log |-> <<>>]
        ELSE [res |-> Ok("ExceptionOrNmi"), log |-> <<>>]

\* The exit reason as run classifies it, and what run returns for it.
ClassifyExit(store) ==
    LET exit_reason == AsU32(vmread(store, "EXIT_REASON"))
        basic_exit_reason == VmxBasicExitReason_from_u32(exit_reason)
    IN  IF basic_exit_reason.some
        THEN [res |-> Ok(basic_exit_reason.val), log |-> <<>>]
        ELSE [res |-> Err("UnknownVMExitReason"),
              log |-> <<"Unknown exit reason", ToString(exit_reason)>>]

\* launch_vm called a second time when the first entry failed.
RunCalls_retry(verdict) ==
    <<"launch_vm">> \o verdict.reads \o
    (IF verdict.res.tag = "Ok"
     THEN <<"vmread_RIP", "vmread_RSP", "vmread_RFLAGS", "vmread_EXIT_REASON">>
     ELSE <<"launch_vm">>)

\* The collaborator calls of one run, in order.
RunCalls(verdict) ==
    <<"launch_vm">> \o verdict.reads \o
    (IF verdict.res.tag = "Ok"
     THEN <<"vmread_RIP", "vmread_RSP", "vmread_RFLAGS", "vmread_EXIT_REASON">>
     ELSE <<>>)

\* What run returns and logs.
RunOutcome(verdict, store) ==
    IF verdict.res.tag = "Ok" THEN ClassifyExit(store)
    ELSE [res |-> verdict.res, log |-> verdict.log]

(***************************************************************************)
(* Vm::setup_vmcs and Vm::activate_vmcs.                                   *)
(***************************************************************************)
\* The control fields programmed whatever the host-state step returned.
SetupCalls_no_abort(host_ok, control_ok) ==
    <<"setup_guest_registers_state", "setup_host_registers_state",
      "setup_vmcs_control_fields">>

\* The configurator calls of setup_vmcs: `?` after the host-state step
\* returns before the control fields are programmed.
SetupCalls(host_ok, control_ok) ==
    <<"setup_guest_registers_state", "setup_host_registers_state">> \o
    (IF host_ok THEN <<"setup_vmcs_control_fields">> ELSE <<>>)

\* The result of the host-state step dropped.
SetupResult_host_ignored(host_ok, control_ok) ==
    IF ~control_ok THEN Err("VmcsControlFields") ELSE Ok("unit")

\* What setup_vmcs returns: the error of the first step that failed.
SetupResult(host_ok, control_ok) ==
    IF ~host_ok THEN Err("HostRegistersState")
    ELSE IF ~control_ok THEN Err("VmcsControlFields")
    ELSE Ok("unit")

\* The setup step whose failure setup_vmcs met, if any.
SetupFailure(host_ok, control_ok) ==
    IF ~host_ok THEN "setup_host_registers_state"
    ELSE IF ~control_ok THEN "setup_vmcs_control_fields"
    ELSE "none"

\* The region is configured once setup_vmcs has returned Ok on it while it
\* was the current VMCS.
Configured(h, r) ==
    [h EXCEPT !.configured = h.current /\ r.tag = "Ok"]

\* The calls of activate_vmcs before setup_vmcs.
ActivateCalls == <<"revision_id.set_bit", "vmclear", "vmptrld">>

\* setup_vmcs called before the VMPTRLD.
ActivateSequence_setup_first(host_ok, control_ok) ==
    <<"revision_id.set_bit", "vmclear">> \o SetupCalls(host_ok, control_ok)
    \o <<"vmptrld">>

\* All the calls of activate_vmcs, in order.
ActivateSequence(host_ok, control_ok) ==
    ActivateCalls \o SetupCalls(host_ok, control_ok)

\* vmclear and vmptrld return nothing to activate_vmcs: an instruction that
\* fails is surfaced by the wrapper, which panics.
InstructionFailure(calls, clear_ok, load_ok) ==
    LET failing == {i \in DOMAIN calls :
                       \/ calls[i] = "vmclear" /\ ~clear_ok
                       \/ calls[i] = "vmptrld" /\ ~load_ok}
    IN  IF failing = {} THEN "none"
        ELSE calls[CHOOSE i \in failing : \A j \in failing : i <= j]

\* The calls up to and including the one that panicked.
CallsUntil(calls, failed) ==
    IF failed = "none" THEN calls
    ELSE SubSeq(calls, 1,
                CHOOSE i \in DOMAIN calls :
                    calls[i] = failed /\ \A j \in 1..(i - 1) : calls[j] # failed)

\* `self.setup_vmcs()?; Ok(())`, unless an instruction panicked before it.
ActivateResult(failed, host_ok, control_ok) ==
    IF failed # "none" THEN Panic(failed)
    ELSE SetupResult(host_ok, control_ok)

(***************************************************************************)
(* virtualize_system and switch_stack (uefi/src/virtualize.rs).            *)
(***************************************************************************)
\* The address of start_hypervisor and the size of a page.
StartHypervisorAddress == 4198400
PageSize == 4096
\* global_const::STACK_NUMBER_OF_PAGES
STACK_NUMBER_OF_PAGES == 16

\* No stack allocated.
NoStack == [base |-> 0, top |-> 0]

\* The processor before virtualize_system is called; its registers hold
\* whatever the caller left in them.
VzStart(regs_ptr, sp) ==
    [pc |-> "virtualize_system", regs_ptr |-> regs_ptr, host_stack |-> 0,
     rcx |-> regs_ptr, rdx |-> 0, r8 |-> 0, rsp |-> sp,
     rip |-> "virtualize_system", stack |-> NoStack]

\* The value of vz in the behaviours of Vm, where virtualize_system is not
\* looked at.
VzIdle == VzStart(0, 0)

\* The addresses of the caller's register snapshot and of the caller's
\* stack pointer, and the page numbers at which the allocator may place the
\* host stack; the page number 0 stands for an allocation that fails.
GuestRegisterPointers == {28672, 28928, 32768}
CallerStackPointers == {20480, 24576, 24568}
HostStackPages == {0, 256, 272, 512, 4096}

\* An allocator that hands back a null pointer when the allocation fails.
allocate_host_stack_null_on_failure(page) ==
    [aborted |-> FALSE,
     ptr |-> IF page = 0 THEN 0 ELSE (page + STACK_NUMBER_OF_PAGES) * PageSize,
     stack |-> IF page = 0 THEN NoStack
               ELSE [base |-> page * PageSize,
                     top |-> (page + STACK_NUMBER_OF_PAGES) * PageSize]]

\* allocate_host_stack: a block of STACK_NUMBER_OF_PAGES pages is
\* allocated and the address of its top is returned; when the allocation
\* fails the call does not return (handle_alloc_error).
allocate_host_stack(page) ==
    IF page = 0
    THEN [aborted |-> TRUE, ptr |-> 0, stack |-> NoStack]
    ELSE [aborted |-> FALSE,
          ptr |-> (page + STACK_NUMBER_OF_PAGES) * PageSize,
          stack |-> [base |-> page * PageSize,
                     top |-> (page + STACK_NUMBER_OF_PAGES) * PageSize]]

\* `allocate_host_stack() as usize` and `host_stack as _` (to u64): casts
\* between a pointer, usize and u64, which keep the value.
AsUsize(ptr) == ptr

\* `mov rsp, r8` taking the wrong argument register.
MovRsp_from_rdx(v) == [v EXCEPT !.rsp = v.rdx]

\* `mov rsp, r8`
MovRsp(v) == [v EXCEPT !.rsp = v.r8]

\* `jmp rdx`
JmpRdx(v) ==
    [v EXCEPT !.rip = IF v.rdx = StartHypervisorAddress
                      THEN "start_hypervisor" ELSE "elsewhere"]

\* The efiapi call `switch_stack(guest_registers, start_hypervisor as
\* usize, host_stack as _)`: the arguments go to rcx, rdx and r8.
CallSwitchStack(v) ==
    [v EXCEPT !.rcx = v.regs_ptr, !.rdx = StartHypervisorAddress,
              !.r8 = AsUsize(v.host_stack), !.rip = "switch_stack"]

(***************************************************************************)
(* The state after Vm::new.                                                *)
(***************************************************************************)
Init ==
    /\ has_launched = FALSE
    /\ guest_registers = InitialRegisters
    /\ revision_bit31 = FALSE
    /\ hw = [current |-> FALSE, launch_state |-> "undefined",
             configured |-> FALSE]
    /\ vmcs = ZeroedStore
    /\ op = "new"
    /\ result = NoResult
    /\ flags = 0
    /\ trace = <<>>
    /\ log = <<>>
    /\ entries = <<>>
    /\ failure = "none"
    /\ vz = VzIdle

(***************************************************************************)
(* The operations.                                                         *)
(***************************************************************************)
SetupVmcs ==
    /\ result.tag # "Panic"
    /\ \E failing \in SetupFailures :
        LET host_ok == failing # "setup_host_registers_state"
            control_ok == failing # "setup_vmcs_control_fields"
            x == Exec(hw, SetupCalls(host_ok, control_ok))
        IN  /\ op' = "setup_vmcs"
            /\ trace' = x.trace
            /\ hw' = Configured(x.hw, SetupResult(host_ok, control_ok))
            /\ result' = SetupResult(host_ok, control_ok)
            /\ failure' = SetupFailure(host_ok, control_ok)
            /\ log' = <<>>
            /\ UNCHANGED <<has_launched, guest_registers, revision_bit31,
                           vmcs, flags, entries, vz>>

ActivateVmcs ==
    /\ result.tag # "Panic"
    /\ \E failing \in ActivateFailures :
        LET clear_ok == failing # "vmclear"
            load_ok == failing # "vmptrld"
            host_ok == failing # "setup_host_registers_state"
            control_ok == failing # "setup_vmcs_control_fields"
            calls == ActivateSequence(host_ok, control_ok)
            failed == InstructionFailure(calls, clear_ok, load_ok)
            made == CallsUntil(calls, failed)
            \* the calls that took effect, and the one that did not
            x == Exec(hw, IF failed = "none" THEN made
                          ELSE SubSeq(made, 1, Len(made) - 1))
        IN  /\ op' = "activate_vmcs"
            /\ revision_bit31' = FALSE
            /\ trace' = IF failed = "none" THEN x.trace
                        ELSE Append(x.trace, Call(failed, x.hw))
            /\ hw' = IF failed = "none"
                     THEN Configured(x.hw, SetupResult(host_ok, control_ok))
                     ELSE x.hw
            /\ result' = ActivateResult(failed, host_ok, control_ok)
            /\ failure' = IF failed # "none" THEN failed
                          ELSE SetupFailure(host_ok, control_ok)
            /\ log' = <<>>
            /\ UNCHANGED <<has_launched, guest_registers, vmcs, flags,
                           entries, vz>>

Run ==
    /\ result.tag # "Panic"
    /\ Len(entries) < MaxRuns
    /\ \E f \in FlagVals, exit \in GuestExits, reason \in ExitReasonVals,
          error \in InstructionErrorVals :
        LET store == Store(exit, reason, error)
            arg == LaunchedArg(has_launched)
            verdict == vm_succeed(f, store)
            out == RunOutcome(verdict, store)
            entered == [guest_registers EXCEPT !.gpr = exit.gpr]
        IN  /\ op' = "run"
            /\ flags' = f
            /\ vmcs' = store
            /\ has_launched' = LaunchedAfter(has_launched, verdict)
            /\ guest_registers' = RegistersAfter(entered, verdict, store)
            /\ trace' = Exec(hw, RunCalls(verdict)).trace
            /\ hw' = IF verdict.res.tag = "Ok"
                     THEN [hw EXCEPT !.launch_state = "launched"] ELSE hw
            /\ result' = out.res
            /\ log' = out.log
            /\ entries' = Append(entries,
                   [arg |-> arg, verified |-> verdict.res.tag = "Ok",
                    ok |-> out.res.tag = "Ok",
                    activated |-> /\ hw.current /\ hw.configured
                                  /\ \A i \in DOMAIN entries :
                                         entries[i].activated])
            /\ failure' = "none"
            /\ UNCHANGED <<revision_bit31, vz>>

Next == SetupVmcs \/ ActivateVmcs \/ Run

Spec == Init /\ [][Next]_vars

(***************************************************************************)
(* vm_succeed on its own: the flags and the VM-instruction-error field are *)
(* drawn at the start and vm_succeed is applied to them.                   *)
(***************************************************************************)
InitVerify ==
    /\ has_launched = FALSE
    /\ guest_registers = InitialRegisters
    /\ revision_bit31 = FALSE
    /\ hw = [current |-> TRUE, launch_state |-> "clear",
             configured |-> TRUE]
    /\ flags \in VerifyFlagVals
    /\ \E error \in VerifyInstructionErrorVals :
           vmcs = [ZeroedStore EXCEPT !.VM_INSTRUCTION_ERROR = error]
    /\ op = "input"
    /\ result = NoResult
    /\ trace = <<>>
    /\ log = <<>>
    /\ entries = <<>>
    /\ failure = "none"
    /\ vz = VzIdle

VmSucceed ==
    /\ op = "input"
    /\ LET verdict == vm_succeed(flags, vmcs)
       IN  /\ op' = "vm_succeed"
           /\ result' = verdict.res
           /\ trace' = Exec(hw, verdict.reads).trace
           /\ log' = verdict.log
    /\ UNCHANGED <<has_launched, guest_registers, revision_bit31, hw, vmcs,
                   flags, entries, failure, vz>>

SpecVerify == InitVerify /\ [][VmSucceed]_vars

(***************************************************************************)
(* virtualize_system on its own, one step per statement or instruction.    *)
(***************************************************************************)
InitVirtualize ==
    /\ has_launched = FALSE
    /\ guest_registers = InitialRegisters
    /\ revision_bit31 = FALSE
    /\ hw = [current |-> FALSE, launch_state |-> "undefined",
             configured |-> FALSE]
    /\ vmcs = ZeroedStore
    /\ op = "none"
    /\ result = NoResult
    /\ flags = 0
    /\ trace = <<>>
    /\ log = <<>>
    /\ entries = <<>>
    /\ failure = "none"
    /\ \E regs_ptr \in GuestRegisterPointers, sp \in CallerStackPointers :
           vz = VzStart(regs_ptr, sp)

\* `let host_stack = allocate_host_stack() as usize;`
VzAllocate ==
    /\ vz.pc = "virtualize_system"
    /\ \E page \in HostStackPages :
           LET a == allocate_host_stack(page)
           IN  vz' = IF a.aborted
                     THEN [vz EXCEPT !.pc = "aborted", !.rip = "aborted"]
                     ELSE [vz EXCEPT !.pc = "call", !.stack = a.stack,
                                     !.host_stack = AsUsize(a.ptr)]
    /\ UNCHANGED vmvars

\* `unsafe { switch_stack(guest_registers, start_hypervisor as usize,
\* host_stack as _) }`
VzCall ==
    /\ vz.pc = "call"
    /\ vz' = [CallSwitchStack(vz) EXCEPT !.pc = "xchg"]
    /\ UNCHANGED vmvars

\* `xchg bx, bx`
VzXchg ==
    /\ vz.pc = "xchg"
    /\ vz' = [vz EXCEPT !.pc = "mov"]
    /\ UNCHANGED vmvars

\* `mov rsp, r8`
VzMov ==
    /\ vz.pc = "mov"
    /\ vz' = [MovRsp(vz) EXCEPT !.pc = "jmp"]
    /\ UNCHANGED vmvars

\* `jmp rdx`
VzJmp ==
    /\ vz.pc = "jmp"
    /\ vz' = [JmpRdx(vz) EXCEPT !.pc = "landed"]
    /\ UNCHANGED vmvars

NextVirtualize == VzAllocate \/ VzCall \/ VzXchg \/ VzMov \/ VzJmp

SpecVirtualize == InitVirtualize /\ [][NextVirtualize]_vars

(***************************************************************************)
(* Vocabulary of the properties.                                           *)
(***************************************************************************)
\* The zero flag (bit 6) and the carry flag (bit 0) of a flags value.
ZeroFlag(f) == (f \div 64) % 2 = 1
CarryFlag(f) == f % 2 = 1

\* The record of the latest launch_vm call.
LastEntry == entries[Len(entries)]

\* Every VM entry so far was made on a region that activate_vmcs had loaded
\* and configured with success.
AlwaysActivated == \A i \in DOMAIN entries : entries[i].activated

\* The low 32 bits of a VMREAD value are a code of the enumeration.
KnownExitReason(v) == v.mid = 0 /\ v.lo \in DOMAIN VmxBasicExitReasonNames
KnownInstructionError(v) ==
    v.mid = 0 /\ v.lo \in DOMAIN VmInstructionErrorNames

\* The calls that read, write or enter the VMCS.
SetupSteps ==
    {"setup_guest_registers_state", "setup_host_registers_state",
     "setup_vmcs_control_fields"}
VmcsUses ==
    SetupSteps \cup
    {"launch_vm", "vmread_RIP", "vmread_RSP", "vmread_RFLAGS",
     "vmread_EXIT_REASON", "vmread_VM_INSTRUCTION_ERROR"}

(***************************************************************************)
(* C1                                                                      *)
(***************************************************************************)
\* C1 as stated, for a Vm that was activated before it was run:
\* has_launched is false after Vm::new and is true exactly when some run
\* invocation so far was successful (returned Ok).
C1_AsStated ==
    AlwaysActivated =>
        (has_launched <=> \E i \in DOMAIN entries : entries[i].ok)

\* C1, amended: has_launched is false after Vm::new, is true exactly when
\* some run invocation so far passed success verification (whether that
\* invocation returned Ok or Err(UnknownVMExitReason)), and no operation of
\* Vm takes it from true back to false.
C1_LaunchedSinceFirstVerifiedEntry ==
    /\ ~has_launched
    /\ [](has_launched <=> \E i \in DOMAIN entries : entries[i].verified)
    /\ [][has_launched => has_launched']_vars

\* Two successful run invocations in a row, with has_launched still true.
C1_Witness ==
    /\ Len(entries) = 2
    /\ AlwaysActivated
    /\ entries[1].ok /\ entries[2].ok
    /\ has_launched

C3_NoFlagIsSuccess ==
    (op = "vm_succeed" /\ ~ZeroFlag(flags) /\ ~CarryFlag(flags))
        => result = Ok("unit")

\* vm_succeed applied to SF|PF|IF with a recognized error code in the field.
C3_Witness ==
    /\ op = "vm_succeed"
    /\ flags = 646
    /\ vmcs.VM_INSTRUCTION_ERROR = U64(0, 0, 4)
    /\ result = Ok("unit")

C6_ExitReasonClassifiedTotally ==
    (op = "run" /\ ~ZeroFlag(flags) /\ ~CarryFlag(flags)) =>
        IF KnownExitReason(vmcs.EXIT_REASON)
        THEN result = Ok(VmxBasicExitReasonNames[vmcs.EXIT_REASON.lo])
        ELSE result = Err("UnknownVMExitReason")

\* A run that read the exit reason 0xFFFFFFFF.
C6_Witness ==
    /\ op = "run"
    /\ LastEntry.verified /\ LastEntry.activated
    /\ vmcs.EXIT_REASON = U64(0, Limb - 1, Limb - 1)
    /\ result = Err("UnknownVMExitReason")

(***************************************************************************)
(* C7                                                                      *)
(***************************************************************************)
\* C7: after every run invocation that returned Ok, the snapshot's rip, rsp
\* and rflags are the values VMREAD returned in that invocation for the
\* guest RIP, RSP and RFLAGS fields, each from its own field.
C7_SnapshotResynchronised ==
    (op = "run" /\ result.tag = "Ok") =>
        /\ guest_registers.rip = vmcs.RIP
        /\ guest_registers.rsp = vmcs.RSP
        /\ guest_registers.rflags = vmcs.RFLAGS

\* A second successful run whose VM exit left other register values than
\* the first one's.
C7_Witness ==
    /\ op = "run"
    /\ Len(entries) = 2
    /\ entries[1].ok /\ entries[2].ok
    /\ guest_registers.rip = 3
    /\ AlwaysActivated

C9_ActivationOrder ==
    op = "activate_vmcs" =>
        LET names == CallNames(trace)
            head == <<"revision_id.set_bit", "vmclear", "vmptrld">>
            k == IF Len(names) < 3 THEN Len(names) ELSE 3
        IN  /\ SubSeq(names, 1, k) = SubSeq(head, 1, k)
            /\ result.tag # "Panic" => Len(names) >= 3
            /\ ~revision_bit31
            /\ \A i \in DOMAIN names :
                   names[i] \in SetupSteps =>
                       /\ \E j \in 1..(i - 1) : names[j] = "vmclear"
                       /\ \E j \in 1..(i - 1) : names[j] = "vmptrld"
                       /\ trace[i].loaded

\* An activation that ran all three setup steps.
C9_Witness ==
    /\ op = "activate_vmcs"
    /\ Len(trace) = 6
    /\ trace[6].call = "setup_vmcs_control_fields"
    /\ result = Ok("unit")

(***************************************************************************)
(* C10                                                                     *)
(***************************************************************************)
\* C10: no setup step, no launch_vm call and no vmread is made unless a
\* VMPTRLD has made the Vm's region the current VMCS before it.
C10_LoadedBeforeUse ==
    \A i \in DOMAIN trace : trace[i].call \in VmcsUses => trace[i].loaded

(***************************************************************************)
(* C11                                                                     *)
(***************************************************************************)
\* C11: when VMCLEAR, VMPTRLD or a setup step fails during activate_vmcs,
\* activate_vmcs does not return Ok and the failed call is the last call it
\* makes.
C11_ActivationFailureSurfaced ==
    (op = "activate_vmcs" /\ failure # "none") =>
        /\ result.tag # "Ok"
        /\ trace # <<>>
        /\ trace[Len(trace)].call = failure
        /\ \A i \in 1..(Len(trace) - 1) : trace[i].call # failure

\* An activation whose host-state step failed.
C11_Witness ==
    /\ op = "activate_vmcs"
    /\ failure = "setup_host_registers_state"
    /\ result = Err("HostRegistersState")
    /\ Len(trace) = 5

(***************************************************************************)
(* C12                                                                     *)
(***************************************************************************)
IsSetupStep(n) == n \in SetupSteps

\* C12: setup_vmcs, called directly or by activate_vmcs, makes the setup
\* steps in the order guest state, host state, control fields; a failure of
\* the host-state step is returned with the control fields never
\* programmed; a failure of the control-field step is returned; Ok is
\* returned only when all three steps ran and none failed.
C12_SetupOrderAndAbort ==
    (op \in {"setup_vmcs", "activate_vmcs"} /\ result.tag # "Panic") =>
        LET steps == SelectSeq(CallNames(trace), IsSetupStep)
            all == <<"setup_guest_registers_state",
                     "setup_host_registers_state",
                     "setup_vmcs_control_fields">>
        IN  /\ steps \in {SubSeq(all, 1, 2), all}
            /\ failure = "setup_host_registers_state" =>
                   /\ steps = SubSeq(all, 1, 2)
                   /\ result = Err("HostRegistersState")
            /\ failure = "setup_vmcs_control_fields" =>
                   /\ steps = all
                   /\ result = Err("VmcsControlFields")
            /\ result.tag = "Ok" <=> (steps = all /\ failure = "none")

\* A setup_vmcs called directly whose host-state step failed.
C12_Witness ==
    /\ op = "setup_vmcs"
    /\ failure = "setup_host_registers_state"
    /\ Len(trace) = 2
    /\ result = Err("HostRegistersState")

VzControl == {"virtualize_system", "switch_stack", "start_hypervisor",
              "aborted"}

\* C14: virtualize_system never hands control back to its caller or to
\* any place other than start_hypervisor; control reaches start_hypervisor
\* only in a step taken with the stack pointer already at the top of the
\* newly allocated stack, which that step leaves in place, and with rcx
\* holding the guest register snapshot pointer virtualize_system received.
C14_StackSwitchedThenHypervisorEntered ==
    /\ [](vz.rip \in VzControl)
    /\ [][(vz.rip # "start_hypervisor" /\ vz'.rip = "start_hypervisor") =>
              /\ vz.stack # NoStack
              /\ vz.rsp = vz.stack.top
              /\ vz'.rsp = vz.rsp
              /\ vz'.rcx = vz.regs_ptr
              /\ vz'.regs_ptr = vz.regs_ptr]_vars

C14_Witness ==
    /\ vz.rip = "start_hypervisor"
    /\ vz.stack # NoStack
    /\ vz.rsp = vz.stack.top
    /\ vz.rsp \notin CallerStackPointers
    /\ vz.rcx = vz.regs_ptr
    /\ vz.regs_ptr \in GuestRegisterPointers

\* C15: when the host-stack allocation fails, virtualize_system stops
\* there: no stack is allocated, control never reaches switch_stack or
\* start_hypervisor, and the stack pointer stays the caller's; and
\* start_hypervisor is never entered with a null stack pointer.
C15_AllocationFailureAborts ==
    /\ vz.stack = NoStack =>
           /\ vz.rip \in {"virtualize_system", "aborted"}
           /\ vz.rsp \in CallerStackPointers
    /\ vz.pc = "aborted" => vz.stack = NoStack
    /\ vz.rip \in {"switch_stack", "start_hypervisor"} => vz.stack # NoStack
    /\ vz.rip = "start_hypervisor" => vz.rsp # 0

C15_Witness ==
    /\ vz.pc = "aborted"
    /\ vz.rip = "aborted"
    /\ vz.stack = NoStack
    /\ vz.rsp \in CallerStackPointers

(***************************************************************************)
(* C16                                                                     *)
(***************************************************************************)
\* The three outcomes of vm_succeed.
InstructionErrorOutcome ==
    result \in {Err("VmInstructionError"), Err("UnknownVMInstructionError")}

FailToLaunchOutcome == result = Err("VMFailToLaunch")

SuccessOutcome == result = Ok("unit")

C17_UnknownExitReasonKeepsEffects ==
    /\ (/\ op = "run"
        /\ LastEntry.verified
        /\ ~KnownExitReason(vmcs.EXIT_REASON)) =>
           /\ result = Err("UnknownVMExitReason")
           /\ ~LastEntry.ok
           /\ has_launched
           /\ guest_registers.rip = vmcs.RIP
           /\ guest_registers.rsp = vmcs.RSP
           /\ guest_registers.rflags = vmcs.RFLAGS
    /\ has_launched <=> \E i \in DOMAIN entries : entries[i].verified
    /\ (\E i \in DOMAIN entries : entries[i].verified /\ ~entries[i].ok) =>
           has_launched

\* The first run of an activated Vm passes success verification, reads an
\* exit reason with bit 31 set and returns the error, with has_launched set
\* and the snapshot changed.
C17_Witness ==
    /\ op = "run"
    /\ Len(entries) = 1
    /\ AlwaysActivated
    /\ LastEntry.verified
    /\ vmcs.EXIT_REASON = U64(0, Limb \div 2, 10)
    /\ result = Err("UnknownVMExitReason")
    /\ has_launched
    /\ guest_registers.rip = vmcs.RIP
    /\ guest_registers.rip # InitialRegisters.rip

(***************************************************************************)
(* C18                                                                     *)
(***************************************************************************)
\* C18: on a Vm that was activated before every run, has_launched agrees
\* with the launch state the hardware tracks for the VMCS: launch_vm is
\* given 1 (VMRESUME) only on a VMCS whose launch state is launched and 0
\* (VMLAUNCH) only on one whose launch state is clear, also when
\* activate_vmcs is called again after a successful run.
C18_LaunchFlagMatchesLaunchState ==
    (op = "run" /\ AlwaysActivated) =>
        /\ trace[1].call = "launch_vm"
        /\ LastEntry.arg = 1 => trace[1].launch_state = "launched"
        /\ LastEntry.arg = 0 => trace[1].launch_state = "clear"

(***************************************************************************)
(* C19                                                                     *)
(***************************************************************************)
\* The exit-reason values that differ from v only above bit 31.
SameLow32(v) == {w \in ExitReasonVals : w.mid = v.mid /\ w.lo = v.lo}

\* C19: a run invocation that passes success verification classifies the
\* low 32 bits of the value VMREAD returned for the exit reason: every value
\* that differs from it only above bit 31 is classified as it was, and a
\* value whose low 16 bits are a code of the enumeration but which has one
\* of the bits 16..31 set yields UnknownVMExitReason, not that reason.
C19_Low32BitsClassified ==
    (op = "run" /\ LastEntry.verified) =>
        LET v == vmcs.EXIT_REASON
        IN  /\ \A w \in SameLow32(v) :
                   ClassifyExit([vmcs EXCEPT !.EXIT_REASON = w]).res = result
            /\ (v.lo \in DOMAIN VmxBasicExitReasonNames /\ v.mid # 0) =>
                   /\ result = Err("UnknownVMExitReason")
                   /\ result # Ok(VmxBasicExitReasonNames[v.lo])
            /\ (v.lo \in DOMAIN VmxBasicExitReasonNames /\ v.mid = 0) =>
                   result = Ok(VmxBasicExitReasonNames[v.lo])

\* A run that read the code of CPUID with bit 31 (VM-entry failure) set and
\* bits above bit 31 clear, while the same code with a bit above bit 31 set
\* is among the values classified.
C19_Witness ==
    /\ op = "run"
    /\ LastEntry.verified /\ LastEntry.activated
    /\ vmcs.EXIT_REASON.lo = 10
    /\ vmcs.EXIT_REASON.mid = Limb \div 2
    /\ result = Err("UnknownVMExitReason")
    /\ \E w \in ExitReasonVals :
           /\ w.hi # 0
           /\ w.lo = 10
           /\ ClassifyExit([vmcs EXCEPT !.EXIT_REASON = w]).res = Ok("Cpuid")

====
